---- MODULE Spec2Model ----
(***************************************************************************)
(* Model of hkxparser: BufferReader, the varint decoder, the type          *)
(* dictionary builder (TSTR / TNA1 / FSTR / TBDY handlers, Type.resolve)   *)
(* and the typed deserializer (deserialize_item / deserialize_object).     *)
(*                                                                         *)
(* Python values are modelled as follows.  An optional integer (format,    *)
(* size, align, ...) is NULL (-1) when it is None; the fields are decoded  *)
(* from unsigned varints, so -1 is never a decoded value.  A reference     *)
(* into self.types or self.items is the index; index 0 of self.types is    *)
(* None in the code itself.  An optional list (self.tstr, self.fstr,       *)
(* self.types) is <<>> when None and <<list>> otherwise.  A 64-bit integer *)
(* is a function from the bit numbers 0..63 (bit 0 = least significant) to *)
(* {0, 1}, because the values exceed the model checker's integers.         *)
(***************************************************************************)
EXTENDS Integers, Sequences, FiniteSets, TLC

VARIABLES data, offset, last, status, tstr, fstr, types, seen, items, heap,
          writes, frames

vars == <<data, offset, last, status, tstr, fstr, types, seen, items, heap,
         writes, frames>>

readerVars == <<data, offset>>
parserVars == <<tstr, fstr, types, seen>>
deserVars  == <<items, heap, writes>>

NULL == -1

\* ---- bounds ----
MaxBuf      == 3
MaxShort    == 1
MaxCount    == 3
MaxSeek     == 4
MaxTypes    == 3
MaxBodies   == 2
MaxCalls    == 2
MaxObjects  == 1
MaxPos      == 3
RecursionLimit == 12
MaxLoop     == 12
MaxSections == 3

OK == "ok"
IndexError == "IndexError"
TypeError == "TypeError"
\* raise HkxException(...): HkxException.__init__ calls super.__init__ on the
\* builtin 'super' type, so constructing the exception itself raises; either
\* way the parse ends with an exception.
HkxException == "HkxException"
RecursionError == "RecursionError"
NotImplementedError == "NotImplementedError"
Hang == "Hang"

Min(a, b) == IF a < b THEN a ELSE b
Max(a, b) == IF a > b THEN a ELSE b

Pow2(n) == <<1, 2, 4, 8, 16, 32, 64, 128, 256>>[n + 1]

\* Python's x & y on unbounded two's-complement integers.
RECURSIVE BitAnd(_, _)
BitAnd(x, y) ==
    IF x = 0 \/ y = 0 THEN 0
    ELSE IF x = -1 THEN y
    ELSE IF y = -1 THEN x
    ELSE (x % 2) * (y % 2) + 2 * BitAnd(x \div 2, y \div 2)

\* Python's ~x.
BitNot(x) == 0 - x - 1

Zeros(n) == [i \in 1..Max(n, 0) |-> 0]

\* ---- 64-bit values ----
Bits64 == 0..63

\* struct.unpack(">Q", b): big-endian, b[1] is the most significant byte.
BE64(b) == [i \in Bits64 |-> (b[8 - (i \div 8)] \div Pow2(i % 8)) % 2]

\* The eight bytes of a 64-bit word, most significant first.
Bytes64(v) ==
    [k \in 1..8 |->
        LET b == 8 * (8 - k)
        IN  v[b] + 2 * v[b + 1] + 4 * v[b + 2] + 8 * v[b + 3] + 16 * v[b + 4]
            + 32 * v[b + 5] + 64 * v[b + 6] + 128 * v[b + 7]]

\* The value of a 64-bit word as an integer; used where the value is small.
RECURSIVE ToIntFrom(_, _)
ToIntFrom(v, i) == IF i > 30 THEN 0 ELSE v[i] + 2 * ToIntFrom(v, i + 1)
ToInt(v) == ToIntFrom(v, 0)

\* bitutil.mask: value & (((1 << (end_bit - start_bit + 1)) - 1) << start_bit)
mask(value, start_bit, end_bit) ==
    [i \in Bits64 |-> IF start_bit <= i /\ i <= end_bit THEN value[i] ELSE 0]

\* bitutil.extract: mask(...) >> start_bit
extract(value, start_bit, end_bit) ==
    LET m == mask(value, start_bit, end_bit)
    IN  [i \in Bits64 |-> IF i + start_bit <= 63 THEN m[i + start_bit] ELSE 0]

reverse_extract64_lsb(value, start_bit, end_bit) ==
    extract(value, start_bit, end_bit)

\* bitutil.reverse_extract64
reverse_extract64(value, start_bit, end_bit) ==
    extract(value, 63 - end_bit, 63 - start_bit)

\* value >> n != 0
ShiftedNonZero(value, n) == \E i \in Bits64 : i >= n /\ value[i] = 1

\* ---- BufferReader ----
\* Python's data[a:b] with negative indices counted from the end.
PyIndex(d, i) == IF i < 0 THEN Max(Len(d) + i, 0) ELSE Min(i, Len(d))
PySlice(d, a, b) ==
    LET lo == PyIndex(d, a)
        hi == PyIndex(d, b)
    IN  IF hi <= lo THEN <<>> ELSE [i \in 1..(hi - lo) |-> d[lo + i]]

\* bytes.ljust(n, b'\x00')
ljust(b, n) == IF Len(b) >= n THEN b ELSE b \o Zeros(n - Len(b))

eof(d, o) == o >= Len(d)

\* BufferReader.unpack: size is struct.calcsize(format); the result is the
\* byte buffer handed to struct.unpack and the cursor after the call.
unpack(d, o, size, peek, off) ==
    LET start == o + off
        end   == start + size
    IN  IF start >= Len(d)
        THEN [err |-> IndexError, out |-> <<>>, offset |-> o]
        ELSE [err |-> OK,
              out |-> ljust(PySlice(d, start, end), end - start),
              offset |-> IF peek THEN o ELSE end]

read_noOffset(d, o, count, peek, off) ==
    [err |-> OK,
     out |-> PySlice(d, o + off, o + off + count),
     offset |-> IF peek THEN o ELSE o + count]

\* BufferReader.read
read(d, o, count, peek, off) ==
    [err |-> OK,
     out |-> PySlice(d, o + off, o + off + count),
     offset |-> IF peek THEN o ELSE o + count + off]

\* ---- varint ----
NoVarint(e) == [err |-> e, size |-> 0, value |-> BE64(Zeros(8))]
Varint(n, v) == [err |-> OK, size |-> n, value |-> v]

\* mode 31, low bits 1: reader.unpack(">Q", peek=True, offset=1)[0]
NineBytes(u2) == IF u2.err # OK THEN NoVarint(u2.err) ELSE Varint(9, BE64(u2.out))

\* the mode dispatch of decode_varint on the 8-byte big-endian value
VarintByMode(d, o, value, msbv, msb, mode) ==
    IF mode <= 15 THEN Varint(1, msbv)
    ELSE IF mode <= 23 THEN Varint(2, reverse_extract64(value, 2, 16 - 1))
    ELSE IF mode <= 27 THEN Varint(3, reverse_extract64(value, 3, 24 - 1))
    ELSE IF mode = 28 THEN Varint(4, reverse_extract64(value, 5, 32 - 1))
    ELSE IF mode = 29 THEN Varint(5, reverse_extract64(value, 5, 40 - 1))
    ELSE IF mode = 30 THEN Varint(8, reverse_extract64(value, 5, 64 - 1))
    ELSE IF mode = 31 /\ msb % 8 = 0
         THEN Varint(6, reverse_extract64(value, 8, 48 - 1))
    ELSE IF mode = 31 /\ msb % 8 = 1
         THEN NineBytes(unpack(d, o, 8, TRUE, 1))
    ELSE NoVarint(HkxException)

VarintOfValue(d, o, value, msbv) ==
    VarintByMode(d, o, value, msbv, ToInt(msbv), ToInt(msbv) \div 8)
VarintOfPeek(d, o, u) ==
    IF u.err # OK THEN NoVarint(u.err)
    ELSE VarintOfValue(d, o, BE64(u.out),
                       reverse_extract64(BE64(u.out), 0, 7))

\* decode_varint: (size, value), or the exception raised.
decode_varint(d, o) == VarintOfPeek(d, o, unpack(d, o, 8, TRUE, 0))

\* read_varint after decode_varint: reader.skip(size) moves the cursor
\* before the width guard is evaluated.
SkipAndGuard(dv, o, max_bits) ==
    IF dv.err # OK
    THEN [err |-> dv.err, size |-> 0, value |-> dv.value, offset |-> o]
    ELSE IF max_bits # NULL /\ ShiftedNonZero(dv.value, max_bits)
    THEN [err |-> HkxException, size |-> dv.size, value |-> dv.value,
          offset |-> o + dv.size]
    ELSE [err |-> OK, size |-> dv.size, value |-> dv.value,
          offset |-> o + dv.size]

\* read_varint: max_bits = NULL is max_bits=None.
read_varint(d, o, max_bits) == SkipAndGuard(decode_varint(d, o), o, max_bits)

\* ---- history of the last call (observation only) ----
NoCall == [op |-> "none", peek |-> FALSE, off |-> 0, count |-> 0, before |-> 0,
           err |-> OK, out |-> <<>>, size |-> 0, value |-> Zeros(8)]

Idle == /\ tstr = <<>> /\ fstr = <<>> /\ types = <<>> /\ seen = <<>>
        /\ items = <<>> /\ heap = <<>> /\ writes = <<>> /\ frames = <<>>

\* ======================= BufferReader operations =======================
Buffers == UNION {[1..n -> {1, 255}] : n \in 0..MaxBuf}
Offsets == {-1, 0, 1}
Formats == {1, 2, 4, 8}

InitReader ==
    /\ data \in Buffers
    /\ offset = 0
    /\ last = NoCall
    /\ status = OK
    /\ Idle

\* the reader and the history after a read or unpack r
Returned(r, op, count, peek, off) ==
    /\ offset' = r.offset
    /\ status' = r.err
    /\ last' = [NoCall EXCEPT !.op = op, !.peek = peek, !.off = off,
                   !.count = count, !.before = offset, !.err = r.err,
                   !.out = r.out]

Read(count, peek, off) ==
    /\ status = OK
    /\ offset + off + count <= MaxSeek + MaxCount
    /\ offset + off + count >= -1
    /\ Returned(read(data, offset, count, peek, off), "read", count, peek, off)
    /\ UNCHANGED <<data, parserVars, deserVars, frames>>

Unpack(size, peek, off) ==
    /\ status = OK
    /\ offset + off >= -1
    /\ Returned(unpack(data, offset, size, peek, off), "unpack", size, peek,
                off)
    /\ UNCHANGED <<data, parserVars, deserVars, frames>>

\* BufferReader.seek
Seek(n) ==
    /\ status = OK
    /\ offset' = n
    /\ last' = [NoCall EXCEPT !.op = "seek", !.before = offset]
    /\ UNCHANGED <<data, status, parserVars, deserVars, frames>>

\* BufferReader.skip
Skip(n) ==
    /\ status = OK
    /\ offset + n <= MaxSeek + MaxCount
    /\ offset' = offset + n
    /\ last' = [NoCall EXCEPT !.op = "skip", !.before = offset, !.count = n]
    /\ UNCHANGED <<data, status, parserVars, deserVars, frames>>

NextReader ==
    \/ \E c \in 0..MaxCount, p \in BOOLEAN, o \in Offsets : Read(c, p, o)
    \/ \E f \in Formats, p \in BOOLEAN, o \in Offsets : Unpack(f, p, o)
    \/ \E n \in 0..MaxSeek : Seek(n)
    \/ \E n \in 1..2 : Skip(n)

SpecReader == InitReader /\ [][NextReader]_vars

\* The region [start, start + count) of the last read or unpack.
LastStart == last.before + last.off
LastEnd   == last.before + last.off + last.count
IsVarintPeek == last.op = "unpack" /\ last.count = 8 /\ last.peek

\* C3: every read or unpack other than the varint decoder's 8-byte peek whose
\* region extends past the end of the buffer ends the parse with an error.
C3_TruncatedReadIsFatal ==
    (/\ last.op \in {"read", "unpack"}
     /\ ~IsVarintPeek
     /\ LastEnd > Len(data))
        => status # OK

\* C10: a completed read or unpack with peek=True leaves the cursor where it
\* was; with peek=False the cursor ends at before + offset + byte count.
C10_CursorEffect ==
    (last.op \in {"read", "unpack"} /\ last.err = OK)
        => offset = (IF last.peek THEN last.before ELSE LastEnd)

C10_Witness ==
    /\ last.op = "read" /\ ~last.peek /\ last.off = 1 /\ last.count = 2
    /\ last.err = OK /\ last.before = 1 /\ offset = 4

\* ======================= varint decoding =======================
ShortTails == UNION {[1..n -> {255}] : n \in 0..MaxShort}
LongTail == <<128, 1, 249, 1, 2, 3, 4, 5, 6, 7, 136, 66>>
MaxBits == {NULL, 16, 31, 32}

InitVarint ==
    /\ \E lead \in 0..255, t \in ShortTails, s \in {<<>>, LongTail} :
          data = <<lead>> \o t \o s
    /\ offset = 0
    /\ last = NoCall
    /\ status = OK
    /\ Idle

\* the history after decode_varint or read_varint returned or raised dv
VarintReturned(dv, op) ==
    /\ status' = dv.err
    /\ last' = [NoCall EXCEPT !.op = op, !.before = offset, !.err = dv.err,
                   !.size = dv.size, !.value = Bytes64(dv.value)]

DecodeVarint ==
    /\ status = OK
    /\ VarintReturned(decode_varint(data, offset), "decode_varint")
    /\ UNCHANGED <<data, offset, parserVars, deserVars, frames>>

ReadVarint(max_bits) ==
    /\ status = OK
    /\ offset' = read_varint(data, offset, max_bits).offset
    /\ VarintReturned(read_varint(data, offset, max_bits), "read_varint")
    /\ UNCHANGED <<data, parserVars, deserVars, frames>>

SkipDecoded ==
    /\ status = OK
    /\ last.op = "decode_varint"
    /\ offset' = offset + last.size
    /\ last' = [NoCall EXCEPT !.op = "skip", !.before = offset,
                   !.count = last.size]
    /\ UNCHANGED <<data, status, parserVars, deserVars, frames>>

NextVarint ==
    \/ DecodeVarint
    \/ \E mb \in MaxBits : ReadVarint(mb)
    \/ SkipDecoded

SpecVarint == InitVarint /\ [][NextVarint]_vars

\* The decoding table of the format, over the bytes of the window.
Window == ljust(PySlice(data, last.before, last.before + 9), 9)
TableValid(M) == M \div 8 < 31 \/ M % 8 \in {0, 1}
TableSize(M) ==
    LET mode == M \div 8
    IN  IF mode <= 15 THEN 1
        ELSE IF mode <= 23 THEN 2
        ELSE IF mode <= 27 THEN 3
        ELSE IF mode = 28 THEN 4
        ELSE IF mode = 29 THEN 5
        ELSE IF mode = 30 THEN 8
        ELSE IF M % 8 = 0 THEN 6
        ELSE 9
TableBytes(w) ==
    LET n == TableSize(w[1])
    IN  IF n = 1 THEN <<0, 0, 0, 0, 0, 0, 0, w[1]>>
        ELSE IF n = 2 THEN <<0, 0, 0, 0, 0, 0, w[1] % 64, w[2]>>
        ELSE IF n = 3 THEN <<0, 0, 0, 0, 0, w[1] % 32, w[2], w[3]>>
        ELSE IF n = 4 THEN <<0, 0, 0, 0, w[1] % 8, w[2], w[3], w[4]>>
        ELSE IF n = 5 THEN <<0, 0, 0, w[1] % 8, w[2], w[3], w[4], w[5]>>
        ELSE IF n = 8 THEN <<w[1] % 8, w[2], w[3], w[4], w[5], w[6], w[7], w[8]>>
        ELSE IF n = 6 THEN <<0, 0, 0, w[2], w[3], w[4], w[5], w[6]>>
        ELSE <<w[2], w[3], w[4], w[5], w[6], w[7], w[8], w[9]>>
Decoded == last.err = OK \/ (last.op = "read_varint" /\ last.size > 0)

\* C9: decode_varint returns the (size, value) of the table for every
\* leading byte, it returns whenever the leading byte is valid and the varint
\* lies in the buffer, and read_varint moves the cursor by exactly that size
\* (decode_varint, a peek, does not move it).
C9_VarintTable ==
    last.op \in {"decode_varint", "read_varint"} =>
        LET w == Window
        IN  /\ Decoded => /\ last.size = TableSize(w[1])
                          /\ last.value = TableBytes(w)
            /\ (/\ last.before >= 0
                /\ last.before < Len(data)
                /\ TableValid(w[1])
                /\ last.before + TableSize(w[1]) <= Len(data)) => Decoded
            /\ (w[1] = 66 /\ Decoded) => last.size = 1 /\ last.value = <<0, 0, 0, 0, 0, 0, 0, 66>>
            /\ (w[1] = 128 /\ w[2] = 1 /\ Decoded)
                   => last.size = 2 /\ last.value = <<0, 0, 0, 0, 0, 0, 0, 1>>
            /\ offset = (IF last.op = "read_varint" /\ Decoded
                         THEN last.before + TableSize(w[1])
                         ELSE last.before)

C9_Witness ==
    /\ last.op = "read_varint" /\ last.err = OK /\ last.size = 9
    /\ last.before = 3 /\ offset = 12
    /\ last.value = <<1, 2, 3, 4, 5, 6, 7, 136>>

\* ======================= type dictionary =======================
\* class Opt
Opt_FORMAT     == 1
Opt_SUBTYPE    == 2
Opt_VERSION    == 16
Opt_INTERFACES == 131072
Opt_SIZE_ALIGN == 8388608
Opt_FLAGS      == 16777216
Opt_FIELDS     == 67108864
Opt_ATTRIBUTE  == 268435456

\* opts & flag, for a single-bit flag
HasOpt(opts, flag) == (opts \div flag) % 2 = 1

\* read_opts: bit i of the varint selects FLAGS[i]
OptFlags == <<Opt_FORMAT, Opt_SUBTYPE, Opt_VERSION, Opt_SIZE_ALIGN, Opt_FLAGS,
              Opt_FIELDS, Opt_INTERFACES, Opt_ATTRIBUTE>>
RECURSIVE SumOpts(_, _)
SumOpts(value, i) ==
    IF i > Len(OptFlags) THEN 0
    ELSE (IF (value \div Pow2(i - 1)) % 2 = 1 THEN OptFlags[i] ELSE 0)
         + SumOpts(value, i + 1)
read_opts(value) == SumOpts(value, 1)

\* Type.__init__; name "" and template <<>> stand for None until TNA1 sets them
NewType == [name |-> "", template |-> <<>>, parent |-> 0, opts |-> 0,
            format |-> NULL, subtype |-> 0, version |-> NULL, size |-> NULL,
            align |-> NULL, flags |-> NULL, fields |-> <<>>,
            interfaces |-> <<>>, attribute |-> NULL]

\* self.types is [None, Type, Type, ...]: the model keeps the Type records of
\* the indices 1.. and index 0 is None.
IsNone(opt) == opt = <<>>
ListOf(opt) == opt[1]
InRange(list, k) == k >= 0 /\ k <= Len(list)

\* read_string_section: the strings of a section
StringLists == {<<>>, <<"T*", "tT", "vN">>}

\* ---- TSTR / FSTR ----
TSTR_truthy(strings) ==
    /\ status = OK
    /\ seen.TSTR < 2
    /\ seen' = [seen EXCEPT !.TSTR = @ + 1]
    /\ IF ~IsNone(tstr) /\ ListOf(tstr) # <<>>
       THEN /\ status' = HkxException
            /\ UNCHANGED tstr
       ELSE /\ tstr' = <<strings>>
            /\ UNCHANGED status
    /\ last' = [op |-> "TSTR"]
    /\ UNCHANGED <<fstr, types, readerVars, deserVars, frames>>

TSTR(strings) ==
    /\ status = OK
    /\ seen.TSTR < 2
    /\ seen' = [seen EXCEPT !.TSTR = @ + 1]
    /\ IF ~IsNone(tstr)
       THEN /\ status' = HkxException
            /\ UNCHANGED tstr
       ELSE /\ tstr' = <<strings>>
            /\ UNCHANGED status
    /\ last' = [op |-> "TSTR"]
    /\ UNCHANGED <<fstr, types, readerVars, deserVars, frames>>

FSTR(strings) ==
    /\ status = OK
    /\ seen.FSTR < 2
    /\ seen' = [seen EXCEPT !.FSTR = @ + 1]
    /\ IF ~IsNone(fstr)
       THEN /\ status' = HkxException
            /\ UNCHANGED fstr
       ELSE /\ fstr' = <<strings>>
            /\ UNCHANGED status
    /\ last' = [op |-> "FSTR"]
    /\ UNCHANGED <<tstr, types, readerVars, deserVars, frames>>

\* ---- TNA1 ----
\* param_name[0] == 't', over the strings of StringLists
StartsWith_t(name) == name \in {"tT"}

\* read_type_identity for one Type; ident is the decoded record
\* [name |-> index, template |-> <<[name |-> index, value |-> varint]>>].
RECURSIVE ReadTemplate(_, _, _, _)
ReadTemplate(params, k, list, acc) ==
    IF k > Len(params) THEN [err |-> OK, template |-> acc]
    ELSE IF IsNone(tstr) THEN [err |-> TypeError, template |-> acc]
    ELSE IF ~(params[k].name < Len(ListOf(tstr)))
         THEN [err |-> IndexError, template |-> acc]
    ELSE LET pname == ListOf(tstr)[params[k].name + 1]
             isType == StartsWith_t(pname)
         IN  IF isType /\ ~InRange(list, params[k].value)
             THEN [err |-> IndexError, template |-> acc]
             ELSE ReadTemplate(params, k + 1, list,
                      Append(acc, [name |-> pname, is_type |-> isType,
                                   value |-> params[k].value]))

WithTemplate(named, i, tp) ==
    [err |-> tp.err, types |-> [named EXCEPT ![i].template = tp.template]]

read_type_identity(list, i, ident) ==
    IF IsNone(tstr) THEN [err |-> TypeError, types |-> list]
    ELSE IF ~(ident.name < Len(ListOf(tstr)))
         THEN [err |-> IndexError, types |-> list]
    ELSE WithTemplate([list EXCEPT ![i].name = ListOf(tstr)[ident.name + 1],
                                   ![i].template = <<>>],
                      i, ReadTemplate(ident.template, 1, list, <<>>))

\* for i in range(1, count): self.read_type_identity(inner, self.types[i])
RECURSIVE ReadIdentities(_, _, _)
NextIdentity(r, i, idents) ==
    IF r.err # OK THEN r ELSE ReadIdentities(r.types, i + 1, idents)
ReadIdentities(list, i, idents) ==
    IF i > Len(list) THEN [err |-> OK, types |-> list]
    ELSE NextIdentity(read_type_identity(list, i, idents[i]), i, idents)

IdentityInputs ==
    {[name |-> 0, template |-> <<>>],
     [name |-> 0, template |-> <<[name |-> 1, value |-> 1]>>]}

\* self.types = [None] + [Type() for _ in range(1, count)] and the loop of
\* read_type_identity over it
NamedTypes(count, ident) ==
    ReadIdentities([i \in 1..(Max(count, 1) - 1) |-> NewType], 1,
                   [i \in 1..(Max(count, 1) - 1) |-> ident])

TypesRead(r) ==
    /\ types' = <<r.types>>
    /\ status' = r.err

TNA1(count, ident) ==
    /\ status = OK
    /\ seen.TNA1 < 2
    /\ seen' = [seen EXCEPT !.TNA1 = @ + 1]
    /\ IF ~IsNone(types)
       THEN /\ status' = HkxException
            /\ UNCHANGED types
       ELSE TypesRead(NamedTypes(count, ident))
    /\ last' = [op |-> "TNA1"]
    /\ UNCHANGED <<tstr, fstr, readerVars, deserVars, frames>>

\* ---- TBDY ----
\* FIELDS: (name-index, flags, offset, type-ordinal) entries appended to
\* typ.fields one by one
RECURSIVE ReadFields(_, _, _, _)
ReadFields(entries, k, list, t) ==
    IF k > Len(entries) THEN [err |-> OK, typ |-> t]
    ELSE IF IsNone(fstr) THEN [err |-> TypeError, typ |-> t]
    ELSE IF ~(entries[k].name < Len(ListOf(fstr)))
         THEN [err |-> IndexError, typ |-> t]
    ELSE IF ~InRange(list, entries[k].type)
         THEN [err |-> IndexError, typ |-> t]
    ELSE ReadFields(entries, k + 1, list,
             [t EXCEPT !.fields = Append(@,
                 [name |-> ListOf(fstr)[entries[k].name + 1],
                  flags |-> entries[k].flags,
                  offset |-> entries[k].offset,
                  type |-> entries[k].type])])

RECURSIVE ReadInterfaces(_, _, _, _)
ReadInterfaces(entries, k, list, t) ==
    IF k > Len(entries) THEN [err |-> OK, typ |-> t]
    ELSE IF ~InRange(list, entries[k].type)
         THEN [err |-> IndexError, typ |-> t]
    ELSE IF IsNone(fstr) THEN [err |-> TypeError, typ |-> t]
    ELSE IF ~(entries[k].name < Len(ListOf(fstr)))
         THEN [err |-> IndexError, typ |-> t]
    ELSE ReadInterfaces(entries, k + 1, list,
             [t EXCEPT !.interfaces = Append(@,
                 [type |-> entries[k].type,
                  name |-> ListOf(fstr)[entries[k].name + 1]])])

\* the guard of read_type_body before the subtype is read
SubtypeCheckRaises(t) == t.format = 0

\* The statements of read_type_body in order, each on the Type t (or on the
\* pair c of the exception raised so far and the Type) and the decoded
\* record b.
Body(e, t) == [err |-> e, typ |-> t]
SetParentOpts(t, b) ==
    [t EXCEPT !.parent = b.parent, !.opts = read_opts(b.opts)]
SetFormat(t, b) ==
    IF HasOpt(t.opts, Opt_FORMAT) THEN [t EXCEPT !.format = b.format] ELSE t
SetSubtype(list, t, b) ==
    IF ~HasOpt(t.opts, Opt_SUBTYPE) THEN Body(OK, t)
    ELSE IF SubtypeCheckRaises(t) THEN Body(HkxException, t)
    ELSE IF ~InRange(list, b.subtype) THEN Body(IndexError, t)
    ELSE Body(OK, [t EXCEPT !.subtype = b.subtype])
SetVersion(t, b) ==
    IF HasOpt(t.opts, Opt_VERSION) THEN [t EXCEPT !.version = b.version]
    ELSE t
SetSizeAlign(t, b) ==
    IF HasOpt(t.opts, Opt_SIZE_ALIGN)
    THEN [t EXCEPT !.size = b.size, !.align = b.align] ELSE t
SetFlags(t, b) ==
    IF HasOpt(t.opts, Opt_FLAGS) THEN [t EXCEPT !.flags = b.flags] ELSE t
SetScalars(c, b) ==
    IF c.err # OK THEN c
    ELSE Body(OK, SetFlags(SetSizeAlign(SetVersion(c.typ, b), b), b))
SetFields(list, c, b) ==
    IF c.err # OK \/ ~HasOpt(c.typ.opts, Opt_FIELDS) THEN c
    ELSE ReadFields(b.fields, 1, list, c.typ)
SetInterfaces(list, c, b) ==
    IF c.err # OK \/ ~HasOpt(c.typ.opts, Opt_INTERFACES) THEN c
    ELSE ReadInterfaces(b.interfaces, 1, list, c.typ)
SetAttribute(c, b) ==
    IF c.err # OK \/ ~HasOpt(c.typ.opts, Opt_ATTRIBUTE) THEN c
    ELSE Body(OK, [c.typ EXCEPT !.attribute = b.attribute])
StoreBody(list, id, c) ==
    [err |-> c.err, types |-> [list EXCEPT ![id] = c.typ]]

\* read_type_body on the decoded record b; list is self.types.  The result
\* carries the Type as it is when the body returns or raises.
read_type_body(list, b) ==
    IF ~InRange(list, b.parent) THEN [err |-> IndexError, types |-> list]
    ELSE StoreBody(list, b.id,
           SetAttribute(
             SetInterfaces(list,
               SetFields(list,
                 SetScalars(
                   SetSubtype(list,
                     SetFormat(SetParentOpts(list[b.id], b), b), b), b),
                 b),
               b),
             b))

\* decoded body records: (opts varint, format) pairs and the other payloads
OptFormatInputs == {<<0, 0>>, <<1, 7>>, <<2, 0>>, <<3, 0>>, <<255, 6>>}
BodyInput(id, parent, of) ==
    [id |-> id, parent |-> parent, opts |-> of[1], format |-> of[2],
     subtype |-> 1, version |-> 1, size |-> 8, align |-> 8, flags |-> 0,
     fields |-> <<[name |-> 0, flags |-> 0, offset |-> 0, type |-> 1]>>,
     interfaces |-> <<[type |-> 1, name |-> 1]>>, attribute |-> 0]

NoBody == [op |-> "read_type_body", id |-> 0, opts |-> 0, format |-> NULL]
BodyRead(r, id) ==
    /\ TypesRead(r)
    /\ last' = [op |-> "read_type_body", id |-> id,
                opts |-> r.types[id].opts, format |-> r.types[id].format]

\* One record of the TBDY section (the handler reads records until the end
\* of the section).
ReadTypeBody(b) ==
    /\ status = OK
    /\ seen.TBDY < MaxBodies
    /\ seen' = [seen EXCEPT !.TBDY = @ + 1]
    /\ IF b.id = 0
       THEN /\ UNCHANGED <<types, status>>
            /\ last' = NoBody
       ELSE IF IsNone(types)
       THEN /\ status' = TypeError
            /\ UNCHANGED types
            /\ last' = NoBody
       ELSE IF ~InRange(ListOf(types), b.id)
       THEN /\ status' = IndexError
            /\ UNCHANGED types
            /\ last' = NoBody
       ELSE BodyRead(read_type_body(ListOf(types), b), b.id)
    /\ UNCHANGED <<tstr, fstr, readerVars, deserVars, frames>>

InitTypes ==
    /\ tstr = <<>> /\ fstr = <<>> /\ types = <<>>
    /\ seen = [TSTR |-> 0, TNA1 |-> 0, FSTR |-> 0, TBDY |-> 0]
    /\ status = OK
    /\ last = [op |-> "none"]
    /\ data = <<>> /\ offset = 0
    /\ items = <<>> /\ heap = <<>> /\ writes = <<>> /\ frames = <<>>

NextTypes ==
    \/ \E strings \in StringLists : TSTR(strings)
    \/ \E count \in 0..MaxTypes, ident \in IdentityInputs : TNA1(count, ident)
    \/ \E strings \in StringLists : FSTR(strings)
    \/ \E id \in 0..MaxTypes, parent \in 0..(MaxTypes - 1),
          of \in OptFormatInputs : ReadTypeBody(BodyInput(id, parent, of))

SpecTypes == InitTypes /\ [][NextTypes]_vars

\* ---- Type.resolve ----
\* the loop condition of resolve; parent 0 is None
ResolveContinues_toRoot(t) == t.parent # 0
ResolveContinues(t) == t.format = NULL /\ t.parent # 0

\* resolve(t): the Type reached and the number of parent steps taken.  A walk
\* of more steps than there are Types is on a parent cycle, where the loop
\* condition never changes: the loop does not terminate (Hang).
RECURSIVE ResolveWalk(_, _, _)
ResolveWalk(list, t, n) ==
    IF ResolveContinues(list[t])
    THEN IF n >= Len(list)
         THEN [err |-> Hang, typ |-> t, steps |-> n]
         ELSE ResolveWalk(list, list[t].parent, n + 1)
    ELSE [err |-> OK, typ |-> t, steps |-> n]
resolve(list, t) == ResolveWalk(list, t, 0)

ResolveType(t) ==
    /\ status = OK
    /\ ~IsNone(types)
    /\ t \in 1..Len(ListOf(types))
    /\ last' = [op |-> "resolve", t |-> t,
                err |-> resolve(ListOf(types), t).err,
                typ |-> resolve(ListOf(types), t).typ,
                steps |-> resolve(ListOf(types), t).steps]
    /\ UNCHANGED <<tstr, fstr, types, status, seen, readerVars, deserVars, frames>>

\* The dictionaries resolve runs on are those a TYPE section leaves behind:
\* TSTR, FSTR, a TNA1 of MaxTypes - 1 Types and one TBDY record per Type,
\* bodies[k] = <<parent, <<opts, format>>>> being the record of Type k.
RECURSIVE ReadBodies(_, _, _)
NextBody(r, bodies, k) ==
    IF r.err # OK THEN r ELSE ReadBodies(r.types, bodies, k + 1)
ReadBodies(list, bodies, k) ==
    IF k > Len(list) THEN [err |-> OK, types |-> list]
    ELSE NextBody(read_type_body(list,
                      BodyInput(k, bodies[k][1], bodies[k][2])), bodies, k)

ParsedTypes(r) ==
    /\ r.err = OK
    /\ types = <<r.types>>

InitResolve ==
    /\ tstr = << <<"T*", "tT", "vN">> >> /\ fstr = << <<"T*", "tT", "vN">> >>
    /\ \E bodies \in [1..(MaxTypes - 1)
                        -> (0..(MaxTypes - 1))
                               \X {<<0, 0>>, <<1, 7>>, <<255, 6>>}] :
          ParsedTypes(ReadBodies(NamedTypes(MaxTypes,
                                     [name |-> 0, template |-> <<>>]).types,
                                 bodies, 1))
    /\ seen = [TSTR |-> 1, TNA1 |-> 1, FSTR |-> 1, TBDY |-> 1]
    /\ status = OK
    /\ last = [op |-> "none"]
    /\ data = <<>> /\ offset = 0
    /\ items = <<>> /\ heap = <<>> /\ writes = <<>> /\ frames = <<>>

NextResolve == \E t \in 1..(MaxTypes - 1) : ResolveType(t)

SpecResolve == InitResolve /\ [][NextResolve]_vars

\* C4: a body whose opts has SUBTYPE while the format is absent or zero ends
\* the parse with an error, and no Type has a subtype without a non-zero
\* format.
C4_SubtypeNeedsFormat ==
    /\ (/\ last.op = "read_type_body"
        /\ HasOpt(last.opts, Opt_SUBTYPE)
        /\ last.format \in {NULL, 0}) => status # OK
    /\ ~IsNone(types) =>
          \A t \in 1..Len(ListOf(types)) :
              ListOf(types)[t].subtype # 0
                  => ListOf(types)[t].format \notin {NULL, 0}

\* C5: the second TSTR, TNA1 or FSTR section ends the parse with an error
\* and leaves the table of the first one as it was.
Second(tag) == seen[tag] = 1 /\ seen'[tag] = 2
C5_DuplicateIsFatal ==
    [][(Second("TSTR") \/ Second("TNA1") \/ Second("FSTR"))
          => /\ status' # OK
             /\ tstr' = tstr /\ types' = types /\ fstr' = fstr]_vars

C5_Witness ==
    /\ seen.TSTR = 2 /\ tstr = << <<>> >> /\ status = HkxException

\* the n-th ancestor of t (0 once the chain has ended)
RECURSIVE Ancestor(_, _, _)
Ancestor(list, t, n) ==
    IF n = 0 \/ t = 0 THEN t ELSE Ancestor(list, list[t].parent, n - 1)
Stops(list, t) == t # 0 /\ (list[t].format # NULL \/ list[t].parent = 0)
ChainEnds(list, t) == \E n \in 1..Len(list) : Ancestor(list, t, n) = 0
Depth(list, t) ==
    CHOOSE n \in 1..Len(list) :
        Ancestor(list, t, n) = 0 /\ Ancestor(list, t, n - 1) # 0

\* C6 as stated: resolve(t) has a format and takes at most depth steps.
C6_ResolveHasFormat ==
    last.op = "resolve" =>
        /\ last.err = OK
        /\ ListOf(types)[last.typ].format # NULL

\* C6 as amended: resolve(t) returns the first Type of t's parent chain that
\* has a format or has no parent (its format is null when no Type of the
\* chain has one); a chain that ends in null is walked in fewer steps than its
\* depth; the walk does not end on a parent cycle without a format.
C6_ResolveFirstStop ==
    last.op = "resolve" =>
        LET list == ListOf(types)
            hits == {n \in 0..(Len(list) - 1) :
                        Stops(list, Ancestor(list, last.t, n))}
        IN  /\ hits # {} =>
                  /\ last.err = OK
                  /\ \A n \in hits : last.steps <= n
                  /\ last.steps \in hits
                  /\ last.typ = Ancestor(list, last.t, last.steps)
            /\ hits = {} => last.err = Hang
            /\ ChainEnds(list, last.t) =>
                  /\ last.err = OK
                  /\ last.steps < Depth(list, last.t)

C6_Witness ==
    /\ last.op = "resolve" /\ last.err = OK /\ last.steps = 1
    /\ ListOf(types)[last.t].format = NULL
    /\ ListOf(types)[last.typ].format = 7

\* ======================= typed deserializer =======================
\* class FormatType
FormatType_VOID    == 0
FormatType_OPAQUE  == 1
FormatType_BOOL    == 2
FormatType_STRING  == 3
FormatType_INT     == 4
FormatType_FLOAT   == 5
FormatType_POINTER == 6
FormatType_RECORD  == 7
FormatType_ARRAY   == 8
\* class FormatFlag
FormatFlag_INLINE_ARRAY == 32
FormatFlag_SIGNED       == 512
FormatFlag_INT8         == 8192
FormatFlag_INT16        == 16384
FormatFlag_INT32        == 32768
FormatFlag_INT64        == 65536
\* class ItemFlag
ItemFlag_POINTER == 16
ItemFlag_ARRAY   == 32

AttributeError == "AttributeError"

\* Decoded values.  Scalars carry the bytes they were decoded from; a list
\* or a dict is a reference <<id>> to a node of the heap, so that two values
\* are the same Python object exactly when they are equal here.
NoneValue == [k |-> "none", b |-> <<>>]
Scalar(kind, bytes) == [k |-> kind, b |-> bytes]
Ref(kind, id) == [k |-> kind, b |-> <<id>>]
NewNode(kind) == [k |-> kind, names |-> <<>>, vals |-> <<>>]

\* list.append(v)
NodeAppend(h, id, v) == [h EXCEPT ![id].vals = Append(@, v)]
\* dict[name] = v: a new key goes last, an existing key keeps its place
NodeSet(h, id, name, v) ==
    LET n == h[id]
        at == {j \in 1..Len(n.names) : n.names[j] = name}
    IN  IF at = {}
        THEN [h EXCEPT ![id].names = Append(@, name),
                       ![id].vals = Append(@, v)]
        ELSE [h EXCEPT ![id].vals[CHOOSE j \in at : TRUE] = v]

\* Item.__init__; none marks an entry of self.items that is None
NoItem == [none |-> TRUE, type |-> 0, flags |-> 0, offset |-> 0, count |-> 0,
           value |-> NoneValue]
Item(type, flags, off, count) ==
    [none |-> FALSE, type |-> type, flags |-> flags, offset |-> off,
     count |-> count, value |-> NoneValue]
\* self.items[k] for the Python index k
ItemAt(its, k) == its[k + 1]
\* Item.is_array
is_array(item) == HasOpt(item.flags, ItemFlag_ARRAY)

\* Type.get_format_type
get_format_type(t) == t.format % 32

\* Type.hierarchy: the Types from t up to the root; a parent cycle never ends
RECURSIVE HierarchyWalk(_, _, _)
HierarchyWalk(list, t, acc) ==
    IF t = 0 THEN [err |-> OK, types |-> acc]
    ELSE IF Len(acc) > Len(list) THEN [err |-> Hang, types |-> acc]
    ELSE HierarchyWalk(list, list[t].parent, <<t>> \o acc)
hierarchy(list, t) == HierarchyWalk(list, t, <<>>)

\* Type.all_fields: the fields of the hierarchy, root first
RECURSIVE ChainFields(_, _, _)
ChainFields(list, h, k) ==
    IF k > Len(h) THEN <<>>
    ELSE list[h[k]].fields \o ChainFields(list, h, k + 1)
all_fields(list, t) == ChainFields(list, hierarchy(list, t).types, 1)

\* (offset + align - 1) & ~(align - 1)
AlignedOffset_roundDown(off, align) == BitAnd(off, BitNot(align - 1))
AlignedOffset(off, align) == BitAnd(off + align - 1, BitNot(align - 1))

\* while reader.tell() < offset + typ.size
InlineContinues_inclusive(pos, start, size) == pos <= start + size
InlineContinues(pos, start, size) == pos < start + size

\* struct.unpack("<Q", b)[0] as a list index: the value when it fits the
\* model's integers, else an index past any list
LE64Index(b) ==
    IF \E j \in 3..8 : b[j] # 0 THEN 65536 ELSE b[1] + 256 * b[2]

Failed(e, st) == [err |-> e, val |-> NoneValue, pos |-> 0, items |-> st.items,
                  heap |-> st.heap, writes |-> st.writes]
Done(v, pos, st) == [err |-> OK, val |-> v, pos |-> pos, items |-> st.items,
                     heap |-> st.heap, writes |-> st.writes]

\* the heap after result = [] or result = {}
Alloc(st, kind) == [st EXCEPT !.heap = Append(@, NewNode(kind))]
\* the state after result.append(r's value) on the list id
Appended(r, id) ==
    [items |-> r.items, writes |-> r.writes,
     heap |-> NodeAppend(r.heap, id, r.val)]
\* the state after result[name] = r's value on the dict id
Assigned(r, id, name) ==
    [items |-> r.items, writes |-> r.writes,
     heap |-> NodeSet(r.heap, id, name, r.val)]

\* self.items[reader.unpack("<Q")[0]]
ItemOfIndex(u, pos, its) ==
    IF u.err # OK THEN [err |-> u.err, item |-> 0, pos |-> pos]
    ELSE IF LE64Index(u.out) >= Len(its)
         THEN [err |-> IndexError, item |-> 0, pos |-> u.offset]
    ELSE [err |-> OK, item |-> LE64Index(u.out), pos |-> u.offset]
read_pointer(d, pos, its) == ItemOfIndex(unpack(d, pos, 8, FALSE, 0), pos, its)

\* deserialize_string
StringOfItem(d, item) ==
    IF item.none THEN [err |-> OK, val |-> NoneValue]
    ELSE IF ~is_array(item) THEN [err |-> HkxException, val |-> NoneValue]
    ELSE [err |-> OK,
          val |-> Scalar("str", read(d, item.offset, item.count - 1,
                                     FALSE, 0).out)]
deserialize_string(d, its, i) == StringOfItem(d, ItemAt(its, i))

\* The decoder reads self.types (tl) and the DATA buffer (d); st is the
\* mutable state: the items with their cached values, the heap of lists and
\* dicts, and the count of assignments to each item.value.  fuel is the
\* number of Python frames left before RecursionError.
RECURSIVE deserialize_item(_, _, _, _, _)
RECURSIVE ItemArrayLoop(_, _, _, _, _, _, _, _)
RECURSIVE deserialize_object(_, _, _, _, _, _)
RECURSIVE deserialize_object_impl(_, _, _, _, _, _)
RECURSIVE InlineLoop(_, _, _, _, _, _, _, _, _)
RECURSIVE FieldsLoop(_, _, _, _, _, _, _, _, _)

\* item.value = [...]: the assignment follows the decode of every element
CacheList(r, i, id) ==
    IF r.err # OK THEN r
    ELSE [r EXCEPT !.val = Ref("list", id),
                   !.items[i + 1].value = Ref("list", id),
                   !.writes[i + 1] = @ + 1]
\* item.value = self.deserialize_object(...)
CacheValue(r, i) ==
    IF r.err # OK THEN r
    ELSE [r EXCEPT !.items[i + 1].value = r.val, !.writes[i + 1] = @ + 1]

DecodeItem(tl, d, i, item, st, fuel) ==
    IF item.none THEN Done(NoneValue, 0, st)
    ELSE IF item.value = NoneValue
    THEN IF is_array(item)
         THEN CacheList(ItemArrayLoop(tl, d, item.type, item.count,
                                      item.offset, Len(st.heap) + 1,
                                      Alloc(st, "list"), fuel - 1),
                        i, Len(st.heap) + 1)
         ELSE CacheValue(deserialize_object(tl, d, item.type, item.offset,
                                            st, fuel - 1), i)
    ELSE Done(item.value, 0, st)

deserialize_item(tl, d, i, st, fuel) ==
    IF fuel <= 0 THEN Failed(RecursionError, st)
    ELSE DecodeItem(tl, d, i, ItemAt(st.items, i), st, fuel)

\* [self.deserialize_object(item_reader, item.type) for _ in range(count)]
NextElement(tl, d, t, n, id, fuel, r) ==
    IF r.err # OK THEN r
    ELSE ItemArrayLoop(tl, d, t, n - 1, r.pos, id, Appended(r, id), fuel)
ItemArrayLoop(tl, d, t, n, pos, id, st, fuel) ==
    IF n <= 0 THEN Done(Ref("list", id), pos, st)
    ELSE NextElement(tl, d, t, n, id, fuel,
                     deserialize_object(tl, d, t, pos, st, fuel))

\* if real_typ.size is not None: reader.seek(offset + real_typ.size)
SeekPast(r, real, start) ==
    IF r.err # OK THEN r
    ELSE IF real.size # NULL THEN [r EXCEPT !.pos = start + real.size]
    ELSE r
\* if real_typ.align is not None: offset = ...; reader.seek(offset)
ObjectAt(tl, d, t, real, start, st, fuel) ==
    SeekPast(deserialize_object_impl(tl, d, t, start, st, fuel - 1),
             real, start)
ObjectOf(tl, d, t, real, pos, st, fuel) ==
    ObjectAt(tl, d, t, real,
             IF real.align # NULL THEN AlignedOffset(pos, real.align)
             ELSE pos,
             st, fuel)
ObjectResolved(tl, d, rs, pos, st, fuel) ==
    IF rs.err # OK THEN Failed(rs.err, st)
    ELSE ObjectOf(tl, d, rs.typ, tl[rs.typ], pos, st, fuel)

deserialize_object(tl, d, t, pos, st, fuel) ==
    IF fuel <= 0 THEN Failed(RecursionError, st)
    ELSE IF t = 0 THEN Failed(AttributeError, st)
    ELSE ObjectResolved(tl, d, resolve(tl, t), pos, st, fuel)

\* return reader.unpack(format)[0]
ScalarOf(kind, u, st) ==
    IF u.err # OK THEN Failed(u.err, st)
    ELSE Done(Scalar(kind, u.out), u.offset, st)
IntWidth(fmt) ==
    IF HasOpt(fmt, FormatFlag_INT8) THEN 1
    ELSE IF HasOpt(fmt, FormatFlag_INT16) THEN 2
    ELSE IF HasOpt(fmt, FormatFlag_INT32) THEN 4
    ELSE IF HasOpt(fmt, FormatFlag_INT64) THEN 8
    ELSE 0
IntOf(d, fmt, n, pos, st) ==
    IF n = 0 THEN Failed(NotImplementedError, st)
    ELSE ScalarOf(IF HasOpt(fmt, FormatFlag_SIGNED)
                  THEN <<"", "b", "h", "", "i", "", "", "", "q">>[n + 1]
                  ELSE <<"", "B", "H", "", "I", "", "", "", "Q">>[n + 1],
                  unpack(d, pos, n, FALSE, 0), st)

\* return self.deserialize_string(reader, self.read_pointer(reader))
StringAt(s, p, st) ==
    IF s.err # OK THEN Failed(s.err, st) ELSE Done(s.val, p.pos, st)
StringOf(d, p, st) ==
    IF p.err # OK THEN Failed(p.err, st)
    ELSE StringAt(deserialize_string(d, st.items, p.item), p, st)

\* the test of the pointer's target type: the exception it raises, or OK
TargetOfType(tl, typ, h) ==
    IF h.err # OK THEN h.err
    ELSE IF \E j \in 1..Len(h.types) : h.types[j] = typ.subtype THEN OK
    ELSE IF typ.subtype = 0 THEN AttributeError
    ELSE IF tl[typ.subtype].format = NULL THEN TypeError
    ELSE IF get_format_type(tl[typ.subtype]) # FormatType_OPAQUE
         THEN HkxException
    ELSE OK
TargetCheck(tl, typ, item) ==
    IF item.none THEN OK ELSE TargetOfType(tl, typ, hierarchy(tl, item.type))

\* return self.deserialize_item(reader, item): the item is decoded on a
\* clone of the reader, the reader stays behind the pointer
BehindPointer(r, p) == IF r.err # OK THEN r ELSE [r EXCEPT !.pos = p.pos]
PointerChecked(tl, d, p, check, st, fuel) ==
    IF check # OK THEN Failed(check, st)
    ELSE BehindPointer(deserialize_item(tl, d, p.item, st, fuel - 1), p)
PointerOf(tl, d, typ, p, st, fuel) ==
    IF p.err # OK THEN Failed(p.err, st)
    ELSE PointerChecked(tl, d, p,
                        TargetCheck(tl, typ, ItemAt(st.items, p.item)),
                        st, fuel)

\* for f in typ.all_fields(): ...
RecordOf(tl, d, t, h, pos, st, fuel) ==
    IF h.err # OK THEN Failed(h.err, st)
    ELSE FieldsLoop(tl, d, all_fields(tl, t), 1, pos, pos,
                    Len(st.heap) + 1, Alloc(st, "dict"), fuel)

ObjectOfFormat(tl, d, t, typ, fmt, fmt_type, pos, st, fuel) ==
    IF fmt_type = FormatType_BOOL
    THEN ScalarOf("bool", unpack(d, pos, 1, FALSE, 0), st)
    ELSE IF fmt_type = FormatType_STRING
    THEN StringOf(d, read_pointer(d, pos, st.items), st)
    ELSE IF fmt_type = FormatType_INT
    THEN IntOf(d, fmt, IntWidth(fmt), pos, st)
    ELSE IF fmt_type = FormatType_FLOAT
    THEN ScalarOf("f", unpack(d, pos, 4, FALSE, 0), st)
    ELSE IF fmt_type = FormatType_ARRAY /\ HasOpt(fmt, FormatFlag_INLINE_ARRAY)
    THEN IF typ.size = NULL THEN Failed(TypeError, st)
         ELSE InlineLoop(tl, d, t, pos, pos, Len(st.heap) + 1,
                         Alloc(st, "list"), fuel, 0)
    ELSE IF fmt_type \in {FormatType_POINTER, FormatType_ARRAY}
    THEN PointerOf(tl, d, typ, read_pointer(d, pos, st.items), st, fuel)
    ELSE IF fmt_type = FormatType_RECORD
    THEN RecordOf(tl, d, t, hierarchy(tl, t), pos, st, fuel)
    ELSE Failed(NotImplementedError, st)

deserialize_object_impl(tl, d, t, pos, st, fuel) ==
    IF fuel <= 0 THEN Failed(RecursionError, st)
    ELSE IF tl[t].format = NULL THEN Failed(TypeError, st)
    ELSE ObjectOfFormat(tl, d, t, tl[t], tl[t].format, get_format_type(tl[t]),
                        pos, st, fuel)

\* while reader.tell() < offset + typ.size: result.append(...)
NextInline(tl, d, t, start, id, fuel, n, r) ==
    IF r.err # OK THEN r
    ELSE InlineLoop(tl, d, t, start, r.pos, id, Appended(r, id), fuel, n + 1)
InlineLoop(tl, d, t, start, pos, id, st, fuel, n) ==
    IF ~InlineContinues(pos, start, tl[t].size)
    THEN Done(Ref("list", id), pos, st)
    ELSE IF n >= MaxLoop THEN Failed(Hang, st)
    ELSE NextInline(tl, d, t, start, id, fuel, n,
                    deserialize_object(tl, d, tl[t].subtype, pos, st, fuel))

\* for f in typ.all_fields(): reader.seek(offset + f.offset); result[f.name] = ...
NextField(tl, d, fields, k, start, id, fuel, r) ==
    IF r.err # OK THEN r
    ELSE FieldsLoop(tl, d, fields, k + 1, start, r.pos, id,
                    Assigned(r, id, fields[k].name), fuel)
FieldsLoop(tl, d, fields, k, start, pos, id, st, fuel) ==
    IF k > Len(fields) THEN Done(Ref("dict", id), pos, st)
    ELSE NextField(tl, d, fields, k, start, id, fuel,
                   deserialize_object(tl, d, fields[k].type,
                                      start + fields[k].offset, st, fuel))

\* ---- the decoded file of the deserializer runs ----
\* Types 1..7 as the TBDY records of a file define them.  SIZE_ALIGN sets
\* size and align together, so a layout is <<NULL, NULL>> or <<size, align>>.
Layout(t, l) == [t EXCEPT !.size = l[1], !.align = l[2],
                          !.opts = IF l[1] = NULL THEN @ ELSE @ + Opt_SIZE_ALIGN]
FileTypes(elem, arr, pair) ==
    << [NewType EXCEPT !.name = "Node", !.opts = Opt_FORMAT + Opt_SIZE_ALIGN + Opt_FIELDS,
           !.format = FormatType_RECORD, !.size = 8, !.align = 8,
           !.fields = <<[name |-> "next", flags |-> 0, offset |-> 0, type |-> 2]>>],
       [NewType EXCEPT !.name = "T*", !.opts = Opt_FORMAT + Opt_SUBTYPE + Opt_SIZE_ALIGN,
           !.format = FormatType_POINTER, !.subtype = 1, !.size = 8, !.align = 8],
       Layout([NewType EXCEPT !.name = "Elem", !.opts = Opt_FORMAT,
           !.format = FormatType_INT + FormatFlag_INT16], elem),
       Layout([NewType EXCEPT !.name = "T[N]", !.opts = Opt_FORMAT + Opt_SUBTYPE,
           !.format = FormatType_ARRAY + FormatFlag_INLINE_ARRAY,
           !.subtype = 3], arr),
       [NewType EXCEPT !.name = "Alias", !.parent = 3],
       [NewType EXCEPT !.name = "Str", !.opts = Opt_FORMAT + Opt_SIZE_ALIGN,
           !.format = FormatType_STRING, !.size = 8, !.align = 8],
       Layout([NewType EXCEPT !.name = "Pair", !.opts = Opt_FORMAT + Opt_FIELDS,
           !.format = FormatType_RECORD,
           !.fields = <<[name |-> "a", flags |-> 0, offset |-> 0, type |-> 5],
                        [name |-> "b", flags |-> 0, offset |-> 4, type |-> 3]>>],
           pair) >>

\* The ITEM records: item 0 is the null item, 1 and 2 are Nodes, 3 is a
\* pointer stored at offset 8, 4 is an array of two Elems (also the bytes of
\* a string), 5 is a Str.
FileItems ==
    << NoItem,
       Item(1, ItemFlag_POINTER, 0, 1),
       Item(1, ItemFlag_POINTER, 8, 1),
       Item(2, ItemFlag_POINTER, 8, 1),
       Item(3, ItemFlag_ARRAY, 16, 2),
       Item(6, ItemFlag_POINTER, 24, 1) >>

\* The DATA payload: the pointers of the two Nodes, eight element bytes and
\* the pointer of the Str.
FileData(p1, p2) ==
    <<p1, 0, 0, 0, 0, 0, 0, 0>> \o <<p2, 0, 0, 0, 0, 0, 0, 0>>
    \o <<1, 0, 0, 0, 2, 0, 0, 0>> \o <<4, 0, 0, 0, 0, 0, 0, 0>>

\* The <<size, align>> of Elem, T[N] and Pair: files that differ in the
\* layout of Elem and T[N], or in that of Pair.
Layouts ==
    (({<<NULL, NULL>>} \cup ({0, 2, 4} \X {0, 2, 3, 4}))
        \X {<<NULL, NULL>>, <<8, 1>>, <<4, 4>>} \X {<<16, 8>>})
    \cup ({<<2, 2>>} \X {<<4, 4>>} \X {<<16, 8>>, <<16, 3>>})

DeserIdle ==
    /\ items = FileItems
    /\ heap = <<>>
    /\ writes = [i \in 1..Len(FileItems) |-> 0]
    /\ frames = <<>>
    /\ seen = [ITEMS |-> 0, OBJS |-> 0]
    /\ last = [op |-> "none"]
    /\ status = OK
    /\ offset = 0
    /\ tstr = <<>> /\ fstr = <<>>

\* files that differ in the pointers of the two Nodes
InitDeser ==
    /\ \E p1 \in 0..3, p2 \in 0..3 : data = FileData(p1, p2)
    /\ types = <<FileTypes(<<2, 2>>, <<4, 4>>, <<16, 8>>)>>
    /\ DeserIdle

\* files that differ in the size and align of the types
InitLayout ==
    /\ data = FileData(2, 0)
    /\ \E l \in Layouts : types = <<FileTypes(l[1], l[2], l[3])>>
    /\ DeserIdle

\* the parser after a decode returned or raised r
DecodeReturned(r) ==
    /\ items' = r.items
    /\ heap' = r.heap
    /\ writes' = r.writes
    /\ status' = r.err
ItemDecoded(r, i) ==
    /\ DecodeReturned(r)
    /\ last' = [op |-> "deserialize_item", i |-> i, t |-> 0, before |-> 0,
                err |-> r.err, val |-> r.val, pos |-> 0,
                cached |-> ItemAt(items, i).value]
ObjectDecoded(r, pos, t) ==
    /\ DecodeReturned(r)
    /\ last' = [op |-> "deserialize_object", i |-> 0, t |-> t,
                before |-> pos, err |-> r.err, val |-> r.val, pos |-> r.pos,
                cached |-> NoneValue]

\* hkx.deserialize_item(hkx.data, hkx.items[i])
DeserializeItem(i) ==
    /\ status = OK
    /\ seen.ITEMS < MaxCalls
    /\ seen' = [seen EXCEPT !.ITEMS = @ + 1]
    /\ ItemDecoded(deserialize_item(ListOf(types), data, i,
                       [items |-> items, heap |-> heap, writes |-> writes],
                       RecursionLimit), i)
    /\ UNCHANGED <<data, offset, tstr, fstr, types, frames>>

\* hkx.deserialize_object(reader, typ) on a reader of the DATA payload
\* positioned at pos
DeserializeObject(pos, t) ==
    /\ status = OK
    /\ seen.OBJS < MaxObjects
    /\ seen' = [seen EXCEPT !.OBJS = @ + 1]
    /\ ObjectDecoded(deserialize_object(ListOf(types), data, t, pos,
                         [items |-> items, heap |-> heap, writes |-> writes],
                         RecursionLimit), pos, t)
    /\ UNCHANGED <<data, offset, tstr, fstr, types, frames>>

NextDeser == \E i \in 0..(Len(FileItems) - 1) : DeserializeItem(i)

SpecDeser == InitDeser /\ [][NextDeser]_vars

NextLayout == \E pos \in 0..MaxPos, t \in 1..7 : DeserializeObject(pos, t)

SpecLayout == InitLayout /\ [][NextLayout]_vars

\* dict[name] of a decoded value
Field(v, name) ==
    LET n == heap[v.b[1]]
    IN  n.vals[CHOOSE j \in 1..Len(n.names) : n.names[j] = name]
IsDict(v) == v.k = "dict" /\ \E j \in 1..Len(heap[v.b[1]].names) :
                                 heap[v.b[1]].names[j] = "next"

\* C1: deserialize_item ends without running out of stack on every item
\* graph, and on the two Nodes that point to each other item 1 decodes to a
\* mapping M1 with M1.next = M2 and M2.next = M1.
C1_CycleTerminates ==
    last.op = "deserialize_item" =>
        /\ last.err # RecursionError
        /\ (last.i = 1 /\ data[1] = 2 /\ data[9] = 1) =>
              /\ last.err = OK
              /\ IsDict(last.val)
              /\ IsDict(Field(last.val, "next"))
              /\ Field(Field(last.val, "next"), "next") = last.val

\* C2: item.value is assigned at most once per item, and a call on an item
\* decoded before returns the cached value without a new assignment.
C2_CacheWrittenOnce ==
    \A i \in 1..Len(items) : writes[i] <= 1

\* the resolved Type of the last deserialize_object call
LastReal == ListOf(types)[resolve(ListOf(types), last.t).typ]
IsPow2(a) == a \in {1, 2, 4, 8, 16, 32, 64}
Multiple(m, a) == IF a = 0 THEN m = 0 ELSE m % a = 0
LeastMultiple(m, a, from) ==
    /\ Multiple(m, a) /\ m >= from
    /\ \A k \in from..(m - 1) : ~Multiple(k, a)

\* C7 as stated: with size and align set the cursor ends at the entry offset
\* rounded up to a multiple of align, plus size.
C7_StrideAnyAlign ==
    (/\ last.op = "deserialize_object" /\ last.err = OK
     /\ LastReal.size # NULL /\ LastReal.align # NULL)
        => \E m \in 0..(last.before + LastReal.align) :
              /\ LeastMultiple(m, LastReal.align, last.before)
              /\ last.pos = m + LastReal.size

\* C7 as amended: the same when align is a power of two.
C7_StridePow2 ==
    (/\ last.op = "deserialize_object" /\ last.err = OK
     /\ LastReal.size # NULL /\ LastReal.align # NULL
     /\ IsPow2(LastReal.align))
        => \E m \in 0..(last.before + LastReal.align) :
              /\ LeastMultiple(m, LastReal.align, last.before)
              /\ last.pos = m + LastReal.size

C7_Witness ==
    /\ last.op = "deserialize_object" /\ last.err = OK
    /\ LastReal.format = FormatType_RECORD
    /\ LastReal.size = 16 /\ LastReal.align = 8
    /\ last.before = 3 /\ last.pos = 24

IsInline(t) ==
    /\ t.format # NULL
    /\ get_format_type(t) = FormatType_ARRAY
    /\ HasOpt(t.format, FormatFlag_INLINE_ARRAY)
Divides(a, b) == a # NULL /\ b # NULL /\ a > 0 /\ b % a = 0
LastLen == Len(heap[last.val.b[1]].vals)

Tag == [TAG0 |-> <<84, 65, 71, 48>>, DATA |-> <<68, 65, 84, 65>>,
        INDX |-> <<73, 78, 68, 88>>, ITEM |-> <<73, 84, 69, 77>>,
        SDKV |-> <<83, 68, 75, 86>>, TYPE |-> <<84, 89, 80, 69>>,
        TSTR |-> <<84, 83, 84, 82>>, TNA1 |-> <<84, 78, 65, 49>>,
        FSTR |-> <<70, 83, 84, 82>>, TBDY |-> <<84, 66, 68, 89>>]

\* read_section: reader.unpack(">I4s"), flags = size_and_flags >> 30,
\* size = size_and_flags & ((1 << 30) - 1)
read_section(d, o) ==
    LET u == unpack(d, o, 8, FALSE, 0)
    IN  IF u.err # OK
        THEN [err |-> u.err, flags |-> 0, size |-> 0, tag |-> <<>>,
              offset |-> o]
        ELSE [err |-> OK, flags |-> u.out[1] \div 64,
              size |-> (u.out[1] % 64) * 16777216 + u.out[2] * 65536
                       + u.out[3] * 256 + u.out[4],
              tag |-> SubSeq(u.out, 5, 8), offset |-> u.offset]

\* The handler table that the handler of a container section passes to
\* read_sections; {} for the tags whose handler does not walk sections.
section_handlers(tag) ==
    IF tag = Tag.TAG0 THEN {Tag.DATA, Tag.INDX, Tag.SDKV, Tag.TYPE}
    ELSE IF tag = Tag.INDX THEN {Tag.ITEM}
    ELSE IF tag = Tag.TYPE THEN {Tag.TSTR, Tag.TNA1, Tag.FSTR, Tag.TBDY}
    ELSE {}

\* The handlers DATA, ITEM, SDKV, TSTR, TNA1, FSTR and TBDY on the payload p
\* = reader.read(header.data_size): the exception raised, whether the
\* payload was read off the enclosing reader before it, and the tables
\* afterwards.  Defined on payloads of zero bytes, the payloads of the files
\* below: a zero byte is an empty string of a string section, the count 0 of
\* TNA1, the ordinal 0 that ends a TBDY record, and part of an ITEM record
\* of type 0 (None).
Handler(tag, p) ==
    LET same == [err |-> OK, read |-> TRUE, tstr |-> tstr, fstr |-> fstr,
                 types |-> types, items |-> items]
        twice == [same EXCEPT !.err = HkxException, !.read = FALSE]
    IN  CASE \A i \in 1..Len(p) : p[i] = 0 ->
            IF tag = Tag.TSTR
            THEN IF ~IsNone(tstr) THEN twice
                 ELSE [same EXCEPT !.tstr = <<[i \in 1..Len(p) |-> ""]>>]
            ELSE IF tag = Tag.FSTR
            THEN IF ~IsNone(fstr) THEN twice
                 ELSE [same EXCEPT !.fstr = <<[i \in 1..Len(p) |-> ""]>>]
            ELSE IF tag = Tag.TNA1
            THEN IF ~IsNone(types) THEN twice
                 ELSE IF p = <<>> THEN [same EXCEPT !.err = IndexError]
                 ELSE [same EXCEPT !.types = << <<>> >>]
            ELSE IF tag = Tag.ITEM
            THEN [same EXCEPT
                     !.items = [i \in 1..((Len(p) + 11) \div 12) |-> NoItem]]
            ELSE same

\* One iteration of the loop of read_sections on the innermost reader
\* (data, offset): the header is read, then the section is skipped, or its
\* handler runs.  The handler of a container reads the payload off the
\* reader and calls read_sections on it: the call is the new last frame,
\* which keeps the reader it returns to.  h is the header, r the payload
\* reader.read(header.data_size) with the cursor behind it, e the outcome of
\* the handler, each computed once.
ReadSections ==
    /\ frames # <<>>
    /\ status = OK
    /\ ~eof(data, offset)
    /\ \E h \in {read_section(data, offset)} :
       \E r \in {read(data, h.offset, h.size - 8, FALSE, 0)} :
          /\ last' = [op |-> "read_sections", before |-> offset,
                      size |-> h.size, tag |-> h.tag, flags |-> h.flags,
                      depth |-> Len(frames)]
          /\ IF h.tag \notin frames[Len(frames)].handlers
             THEN /\ offset' = h.offset + (h.size - 8)
                  /\ UNCHANGED <<data, status, frames, tstr, fstr, types,
                                 items>>
             ELSE IF section_handlers(h.tag) # {}
             THEN /\ frames' = Append(frames,
                                   [handlers |-> section_handlers(h.tag),
                                    caller |-> <<data, r.offset>>])
                  /\ data' = r.out
                  /\ offset' = 0
                  /\ UNCHANGED <<status, tstr, fstr, types, items>>
             ELSE \E e \in {Handler(h.tag, r.out)} :
                  /\ offset' = IF e.read THEN r.offset ELSE h.offset
                  /\ status' = e.err
                  /\ tstr' = e.tstr /\ fstr' = e.fstr /\ types' = e.types
                  /\ items' = e.items
                  /\ UNCHANGED <<data, frames>>
    /\ UNCHANGED <<seen, heap, writes>>

\* The loop of read_sections ends at reader.eof(): the call returns to the
\* handler that made it, and that to the loop of the enclosing reader.
EndSections ==
    /\ frames # <<>>
    /\ status = OK
    /\ eof(data, offset)
    /\ frames' = SubSeq(frames, 1, Len(frames) - 1)
    /\ IF frames[Len(frames)].caller = <<>>
       THEN UNCHANGED <<data, offset>>
       ELSE /\ data' = frames[Len(frames)].caller[1]
            /\ offset' = frames[Len(frames)].caller[2]
    /\ last' = [op |-> "return", before |-> offset, size |-> 0, tag |-> <<>>,
                flags |-> 0, depth |-> Len(frames)]
    /\ UNCHANGED <<status, parserVars, deserVars>>

\* Sections <<flags, size, tag, zero bytes after the header>>.  The size of
\* a container is any of four; a section with another handler has at least
\* its data_size in zero bytes behind it.
SectionInputs ==
    ({0} \X {0, 8, 16, 24} \X {Tag.TAG0, Tag.INDX, Tag.TYPE} \X {0})
    \cup ({0} \X {0, 8} \X {Tag.DATA, Tag.ITEM, Tag.SDKV, Tag.TSTR, Tag.TNA1,
                             Tag.FSTR, Tag.TBDY} \X {0})
    \cup ({0} \X {12} \X {Tag.DATA, Tag.ITEM, Tag.SDKV, Tag.TSTR, Tag.TNA1,
                          Tag.FSTR, Tag.TBDY} \X {4})
    \cup {<<0, 8, Tag.DATA, 4>>}

\* the bytes of the sections secs[k..]
RECURSIVE FileBytes(_, _)
FileBytes(secs, k) ==
    IF k > Len(secs) THEN <<>>
    ELSE <<64 * secs[k][1], 0, 0, secs[k][2]>> \o secs[k][3]
         \o Zeros(secs[k][4]) \o FileBytes(secs, k + 1)

\* before main runs: no file is read, no read_sections call is active
InitSections ==
    /\ data = <<>>
    /\ offset = 0
    /\ last = [op |-> "none", before |-> 0, size |-> 0, tag |-> <<>>,
               flags |-> 0, depth |-> 0]
    /\ status = OK
    /\ Idle

\* main: read_sections(BufferReader(data), {'TAG0': hkx.TAG0}) on a file of
\* a TAG0 section and up to MaxSections - 1 sections behind its header
main ==
    /\ frames = <<>>
    /\ last.op = "none"
    /\ \E head \in ({0} \X {0, 4, 8, 16, 24, 32}) \cup {<<1, 16>>},
          n \in 0..(MaxSections - 1) :
          \E body \in [1..n -> SectionInputs] :
              data' = FileBytes(<< <<head[1], head[2], Tag.TAG0, 0>> >>
                                \o body, 1)
    /\ frames' = <<[handlers |-> {Tag.TAG0}, caller |-> <<>>]>>
    /\ last' = [last EXCEPT !.op = "main"]
    /\ UNCHANGED <<offset, status, parserVars, deserVars>>

NextSections == main \/ ReadSections \/ EndSections

\* The interpreter keeps running the loop of a call that is active: a step
\* of it that can be taken is taken.
SpecSections ==
    /\ InitSections
    /\ [][NextSections]_vars
    /\ WF_vars(ReadSections \/ EndSections)

\* C11: for every input buffer and every header size field, a call of
\* read_sections that is active either completes or raises an error, it
\* never loops forever.  An iteration on a header of size 0 skips or reads
\* data_size = -8 bytes, which puts the cursor back at the header: the
\* iteration leaves the state as it was and repeats without end.
C11_SectionWalkEnds == (frames # <<>>) ~> (frames = <<>> \/ status # OK)

====
